---- MODULE Spec2Model ----
(***************************************************************************)
(* Response-evaluation pipeline of the AI Interview API.                   *)
(*                                                                         *)
(* Persisted state: the interview_responses and response_scores tables and *)
(* one row of the questions table.  Each accepted submission schedules one *)
(* background task (process_text_response / process_audio_response); the   *)
(* tasks of different responses interleave at their database commits and   *)
(* external calls (main_prod.py runs several workers).                     *)
(*                                                                         *)
(* Numbers: the scorer works on Python floats.  The only non-integers are  *)
(* the filler ratio f/max(w,1) and what is derived from it, so every       *)
(* quantity is kept exactly as a numerator over the denominator            *)
(* max(w,1).  The input sets below are chosen so that the float            *)
(* computation and the exact one truncate to the same integers.            *)
(***************************************************************************)
EXTENDS Integers, Sequences, FiniteSets, TLC

\* ------------------------------------------------------------------ bounds
MaxResponses == 2

\* ------------------------------------------------------------ basic values
\* A nullable column or an Optional value: <<>> is None, <<v>> is v.
None == <<>>

Some(v) == <<v>>

Max(a, b) == IF a >= b THEN a ELSE b

Min(a, b) == IF a <= b THEN a ELSE b

\* Python int(x) on the exact rational n/d (d > 0): truncation toward zero.
PyInt(n, d) == IF n >= 0 THEN n \div d ELSE -((-n) \div d)

QuestionTypes == {"behavioral", "technical", "situational"}

\* ------------------------------------------------------------------- texts
\* A response text is represented by what the analyzers read from it after
\* _preprocess_text: whether it is empty or whitespace only, its number of
\* words, filler words and sentences, and whether an introduction, body or
\* conclusion cue occurs where _analyze_structure looks for it.
Text(blank, words, fillers, sentences, intro, body, conclusion) ==
    [blank |-> blank, words |-> words, fillers |-> fillers,
     sentences |-> sentences, intro |-> intro, body |-> body,
     conclusion |-> conclusion]

\* "" : what _parse_ai_response hands to _get_fallback_scores
EmptyText == Text(TRUE, 0, 0, 0, FALSE, FALSE, FALSE)

\* ------------------------------------------------------- metrics analyzers
_analyze_basic_metrics(text) ==
    [word_count |-> text.words,
     filler_words_count |-> text.fillers,
     \* filler_words_ratio = filler_count / max(len(words), 1)
     filler_ratio_num |-> text.fillers,
     filler_ratio_den |-> Max(text.words, 1)]

_analyze_structure(text) ==
    LET structure_score ==
            (IF text.intro THEN 30 ELSE 0)
          + (IF text.body THEN 40 ELSE 0)
          + (IF text.conclusion THEN 30 ELSE 0)
          + (IF text.sentences >= 3 THEN 10 ELSE 0)
    IN  [structure_score |-> Min(100, structure_score)]

\* ----------------------------------------------------- scoring oracle
\* A JSON value of the oracle's answer under one key.
JInt(n) == [kind |-> "int", v |-> n]

JNull == [kind |-> "null", v |-> 0]

\* a non-empty string that is not a number, such as "N/A"
JStr == [kind |-> "str", v |-> 0]

JMissing == [kind |-> "missing", v |-> 0]

\* The judgment dictionary handed to _calculate_final_scores.
Judgment(c, cl, s, t) ==
    [content_relevance |-> c, communication_clarity |-> cl,
     structure_organization |-> s, technical_accuracy |-> t]

\* Variant: the base score is the word count, not twice the word count.
_get_fallback_scores_NoDoubling(text, question_type) ==
    LET word_count == text.words
        base_score == Min(85, Max(40, word_count))
    IN  Judgment(JInt(base_score), JInt(base_score - 5), JInt(base_score - 10),
                 IF question_type = "technical" THEN JInt(base_score) ELSE JNull)

_get_fallback_scores(text, question_type) ==
    LET word_count == text.words
        base_score == Min(85, Max(40, word_count * 2))
    IN  Judgment(JInt(base_score), JInt(base_score - 5), JInt(base_score - 10),
                 IF question_type = "technical" THEN JInt(base_score) ELSE JNull)

\* int(result[key]) raises on null and on a non-numeric string
IntRaises(j) == j.kind \in {"null", "str"}

ClampKey(j) == IF j.kind = "int" THEN JInt(Max(0, Min(100, j.v))) ELSE j

\* response: [kind |-> "nojson"] (no JSON object in the message, invalid
\* JSON, or no message at all) or [kind |-> "json", result |-> Judgment].
_parse_ai_response(response) ==
    IF /\ response.kind = "json"
       /\ ~ IntRaises(response.result.content_relevance)
       /\ ~ IntRaises(response.result.communication_clarity)
       /\ ~ IntRaises(response.result.structure_organization)
    THEN Judgment(ClampKey(response.result.content_relevance),
                  ClampKey(response.result.communication_clarity),
                  ClampKey(response.result.structure_organization),
                  response.result.technical_accuracy)
    ELSE _get_fallback_scores(EmptyText, "general")

\* Variant: the service-error path calls the fallback the way the parse path
\* does, with an empty text and the type "general".
_get_ai_scores_GeneralFallback(text, question_type, oracle) ==
    IF oracle.kind = "error"
    THEN _get_fallback_scores(EmptyText, "general")
    ELSE _parse_ai_response(oracle)

\* oracle: [kind |-> "error"] when the service call raises, else the response
_get_ai_scores(text, question_type, oracle) ==
    IF oracle.kind = "error"
    THEN _get_fallback_scores(text, question_type)
    ELSE _parse_ai_response(oracle)

\* --------------------------------------------------------- score aggregator
\* ai_scores.get(key, 70)
GetScore(j, default) == IF j.kind = "missing" THEN default ELSE j.v

ZeroScores ==
    [overall_score |-> 0, content_relevance_score |-> 0,
     communication_clarity_score |-> 0, structure_organization_score |-> 0,
     technical_accuracy_score |-> None, filler_words_count |-> 0,
     word_count |-> 0]

\* Variant: the filler penalty is ratio * 100 without the cap of 20.
FillerPenalty_Uncapped(basic_metrics) ==
    basic_metrics.filler_ratio_num * 100

\* filler_penalty = min(20, ratio * 100), as a numerator over filler_ratio_den
FillerPenalty(basic_metrics) ==
    Min(20 * basic_metrics.filler_ratio_den, basic_metrics.filler_ratio_num * 100)

\* Variant: the heuristic score moves the structure score at full weight.
StructureBonus_FullWeight(structure) ==
    structure.structure_score - 70

\* (structure_score - 70) * 0.3 : the heuristic score is a multiple of 10, so
\* the bonus is an integer
StructureBonus(structure) ==
    ((structure.structure_score - 70) * 3) \div 10

\* Variant: a technical score that is present is counted on every question.
IncludeTechnical_AnyType(technical_score, question_type) ==
    technical_score.kind \in {"int", "str"}

\* technical_score is not None and question_type == 'technical'
IncludeTechnical(technical_score, question_type) ==
    /\ technical_score.kind \in {"int", "str"}
    /\ question_type = "technical"

\* Returns [exc |-> None or Some(message), scores |-> the score dictionary].
_calculate_final_scores(basic_metrics, structure, ai_scores, question_type) ==
    LET content_score == GetScore(ai_scores.content_relevance, 70)
        clarity_in == GetScore(ai_scores.communication_clarity, 70)
        structure_in == GetScore(ai_scores.structure_organization, 70)
        technical_score == ai_scores.technical_accuracy
        den == basic_metrics.filler_ratio_den
        filler_penalty_num == FillerPenalty(basic_metrics)
        clarity_num == Max(0, clarity_in * den - filler_penalty_num)
        structure_bonus == StructureBonus(structure)
        structure_score == Max(0, Min(100, structure_in + structure_bonus))
        include_technical == IncludeTechnical(technical_score, question_type)
        count == IF include_technical THEN 4 ELSE 3
        sum_num == (content_score + structure_score
                      + (IF include_technical THEN technical_score.v ELSE 0)) * den
                   + clarity_num
    IN  IF technical_score.kind = "str"
        THEN [exc |-> Some(IF include_technical
                           THEN "unsupported operand type(s) for +: 'float' and 'str'"
                           ELSE "invalid literal for int() with base 10: 'N/A'"),
              scores |-> ZeroScores]
        ELSE [exc |-> None,
              scores |->
                [overall_score |-> PyInt(sum_num, den * count),
                 content_relevance_score |-> content_score,
                 communication_clarity_score |-> PyInt(clarity_num, den),
                 structure_organization_score |-> structure_score,
                 \* int(technical_score) if technical_score else None
                 technical_accuracy_score |->
                     IF technical_score.kind = "int" /\ technical_score.v # 0
                     THEN Some(technical_score.v) ELSE None,
                 filler_words_count |-> basic_metrics.filler_words_count,
                 word_count |-> basic_metrics.word_count]]

\* ------------------------------------------------------ feedback narrative
_generate_fallback_feedback(scores) ==
    LET score == scores.overall_score
    IN  IF score >= 80
        THEN "Excellent response! You demonstrated strong communication skills and provided relevant content."
        ELSE IF score >= 60
        THEN "Good response with room for improvement. Consider adding more specific examples and improving organization."
        ELSE "Your response shows effort, but could benefit from better structure and more detailed content."

RECURSIVE Join(_, _)
\* sep.join(tips)
Join(sep, tips) ==
    IF tips = <<>> THEN ""
    ELSE IF Len(tips) = 1 THEN tips[1]
    ELSE tips[1] \o sep \o Join(sep, Tail(tips))

_generate_improvement_tips(scores, metrics) ==
    LET tips ==
            (IF scores.communication_clarity_score < 70
             THEN <<"Practice speaking more clearly and reduce filler words">>
             ELSE <<>>)
         \o (IF scores.structure_organization_score < 70
             THEN <<"Use the STAR method (Situation, Task, Action, Result) to structure your responses">>
             ELSE <<>>)
         \o (IF metrics.word_count < 50
             THEN <<"Provide more detailed responses with specific examples">>
             ELSE <<>>)
         \o (IF metrics.filler_words_count > 5
             THEN <<"Practice reducing filler words like 'um', 'uh', and 'like'">>
             ELSE <<>>)
    IN  Join("; ", IF tips = <<>>
                   THEN <<"Continue practicing to maintain your strong performance">>
                   ELSE tips)

\* What the narrative generator's message holds when the call returns.
NarrativeText == "You answered the question directly; add one concrete example."

\* narrative: "error" (the call raises), "text", "empty" ("") or "null"
\* (message.content is None).
_generate_feedback(scores, metrics, narrative) ==
    [detailed_feedback |->
         CASE narrative = "error" -> Some(_generate_fallback_feedback(scores))
           [] narrative = "text" -> Some(NarrativeText)
           [] narrative = "empty" -> Some("")
           [] OTHER -> None,
     improvement_tips |-> _generate_improvement_tips(scores, metrics)]

NoJudgment == Judgment(JMissing, JMissing, JMissing, JMissing)

\* ai_scores is not part of the dictionary the code returns; it is kept
\* beside it to relate the record to the judgment it was computed from.
_create_empty_score ==
    [exc |-> None,
     ai_scores |-> NoJudgment,
     scores |-> ZeroScores,
     feedback |-> [detailed_feedback |-> Some("No response provided for analysis."),
                   improvement_tips |-> "Please provide a response to receive feedback."]]

\* Variant: an empty text is analysed and judged like any other.
score_response_NoEmptyCheck(text, question_type, oracle, narrative) ==
    LET basic_metrics == _analyze_basic_metrics(text)
        structure_analysis == _analyze_structure(text)
        ai_scores == _get_ai_scores(text, question_type, oracle)
        final == _calculate_final_scores(basic_metrics, structure_analysis,
                                         ai_scores, question_type)
    IN  IF final.exc # None
        THEN [exc |-> final.exc, ai_scores |-> ai_scores, scores |-> ZeroScores,
              feedback |-> _create_empty_score.feedback]
        ELSE [exc |-> None, ai_scores |-> ai_scores, scores |-> final.scores,
              feedback |-> _generate_feedback(final.scores, basic_metrics, narrative)]

\* The oracle and the narrative generator are external: their outcomes are
\* arguments.  Returns [exc, scores, feedback]; exc is the message of the
\* exception score_response raises, if any.
score_response(text, question_type, oracle, narrative) ==
    IF text.blank THEN _create_empty_score
    ELSE
      LET basic_metrics == _analyze_basic_metrics(text)
          structure_analysis == _analyze_structure(text)
          ai_scores == _get_ai_scores(text, question_type, oracle)
          final == _calculate_final_scores(basic_metrics, structure_analysis,
                                           ai_scores, question_type)
      IN  IF final.exc # None
          THEN [exc |-> final.exc, ai_scores |-> ai_scores, scores |-> ZeroScores,
                feedback |-> _create_empty_score.feedback]
          ELSE [exc |-> None, ai_scores |-> ai_scores, scores |-> final.scores,
                feedback |-> _generate_feedback(final.scores, basic_metrics, narrative)]

\* ------------------------------------------------------ feedback generator
\* FeedbackGenerator is imported by the interview router and never called.
\* "x and x >= n" on an optional integer: None and 0 are falsy
Truthy(opt) == opt # None /\ opt[1] # 0

\* Seq[:5]
FirstFive(seq) == SubSeq(seq, 1, Min(5, Len(seq)))

\* text_strengths: the entries for confidence indicators, sentiment and
\* vocabulary, which depend on columns the score dictionary here leaves out
_identify_strengths(score, text_strengths, question_type) ==
    LET content ==
            IF score.content_relevance_score >= 80
            THEN <<"Excellent content relevance - directly addressed the question">>
            ELSE IF score.content_relevance_score >= 70
            THEN <<"Good content relevance - mostly addressed the question">>
            ELSE <<>>
        clarity ==
            IF score.communication_clarity_score >= 80
            THEN <<"Clear and articulate communication">>
            ELSE IF score.communication_clarity_score >= 70
            THEN <<"Generally clear communication">>
            ELSE <<>>
        structure ==
            IF score.structure_organization_score >= 80
            THEN <<"Well-organized and structured response">>
            ELSE IF score.structure_organization_score >= 70
            THEN <<"Good response structure">>
            ELSE <<>>
        technical ==
            IF Truthy(score.technical_accuracy_score)
                  /\ score.technical_accuracy_score[1] >= 80
            THEN <<"Strong technical accuracy and knowledge">>
            ELSE IF Truthy(score.technical_accuracy_score)
                  /\ score.technical_accuracy_score[1] >= 70
            THEN <<"Good technical understanding">>
            ELSE <<>>
        detail ==
            IF score.word_count >= 100
            THEN <<"Provided detailed and comprehensive response">>
            ELSE <<>>
        strengths == content \o clarity \o structure \o technical \o detail
                         \o text_strengths
    IN  IF strengths = <<>>
        THEN <<"Attempted to provide a response">>
                 \o (IF score.word_count > 20
                     THEN <<"Provided a substantive answer">> ELSE <<>>)
        ELSE FirstFive(strengths)

\* Variant: content relevance counts as a weakness below 75.
_identify_weaknesses_Below75(score, text_weaknesses, question_type) ==
    LET content ==
            IF score.content_relevance_score < 75
            THEN <<"Response could be more directly relevant to the question">>
            ELSE <<>>
        clarity ==
            IF score.communication_clarity_score < 60
            THEN <<"Communication could be clearer and more articulate">>
            ELSE <<>>
        structure ==
            IF score.structure_organization_score < 60
            THEN <<"Response structure and organization needs improvement">>
            ELSE <<>>
        technical ==
            IF /\ Truthy(score.technical_accuracy_score)
               /\ score.technical_accuracy_score[1] < 60
               /\ question_type = "technical"
            THEN <<"Technical accuracy and knowledge could be strengthened">>
            ELSE <<>>
        fillers ==
            IF score.filler_words_count > 5
            THEN <<"Reduce use of filler words (um, uh, like)">>
            ELSE <<>>
        length ==
            IF score.word_count # 0 /\ score.word_count < 30
            THEN <<"Response could be more detailed and comprehensive">>
            ELSE IF score.word_count > 300
            THEN <<"Response could be more concise and focused">>
            ELSE <<>>
    IN  FirstFive(content \o clarity \o structure \o technical \o fillers
                      \o length \o text_weaknesses)

\* text_weaknesses: the entries for confidence indicators and sentiment
_identify_weaknesses(score, text_weaknesses, question_type) ==
    LET content ==
            IF score.content_relevance_score < 60
            THEN <<"Response could be more directly relevant to the question">>
            ELSE <<>>
        clarity ==
            IF score.communication_clarity_score < 60
            THEN <<"Communication could be clearer and more articulate">>
            ELSE <<>>
        structure ==
            IF score.structure_organization_score < 60
            THEN <<"Response structure and organization needs improvement">>
            ELSE <<>>
        technical ==
            IF /\ Truthy(score.technical_accuracy_score)
               /\ score.technical_accuracy_score[1] < 60
               /\ question_type = "technical"
            THEN <<"Technical accuracy and knowledge could be strengthened">>
            ELSE <<>>
        fillers ==
            IF score.filler_words_count > 5
            THEN <<"Reduce use of filler words (um, uh, like)">>
            ELSE <<>>
        length ==
            IF score.word_count # 0 /\ score.word_count < 30
            THEN <<"Response could be more detailed and comprehensive">>
            ELSE IF score.word_count > 300
            THEN <<"Response could be more concise and focused">>
            ELSE <<>>
    IN  FirstFive(content \o clarity \o structure \o technical \o fillers
                      \o length \o text_weaknesses)

\* str.lower() on the entries that can stand first in either list
Lower(entry) ==
    CASE entry = "Excellent content relevance - directly addressed the question"
           -> "excellent content relevance - directly addressed the question"
      [] entry = "Good content relevance - mostly addressed the question"
           -> "good content relevance - mostly addressed the question"
      [] entry = "Clear and articulate communication"
           -> "clear and articulate communication"
      [] entry = "Generally clear communication"
           -> "generally clear communication"
      [] entry = "Well-organized and structured response"
           -> "well-organized and structured response"
      [] entry = "Good response structure"
           -> "good response structure"
      [] entry = "Strong technical accuracy and knowledge"
           -> "strong technical accuracy and knowledge"
      [] entry = "Good technical understanding"
           -> "good technical understanding"
      [] entry = "Provided detailed and comprehensive response"
           -> "provided detailed and comprehensive response"
      [] entry = "Demonstrated confidence in responses"
           -> "demonstrated confidence in responses"
      [] entry = "Positive and enthusiastic tone"
           -> "positive and enthusiastic tone"
      [] entry = "Rich vocabulary and varied expression"
           -> "rich vocabulary and varied expression"
      [] entry = "Attempted to provide a response"
           -> "attempted to provide a response"
      [] entry = "Response could be more directly relevant to the question"
           -> "response could be more directly relevant to the question"
      [] entry = "Communication could be clearer and more articulate"
           -> "communication could be clearer and more articulate"
      [] entry = "Response structure and organization needs improvement"
           -> "response structure and organization needs improvement"
      [] entry = "Technical accuracy and knowledge could be strengthened"
           -> "technical accuracy and knowledge could be strengthened"
      [] entry = "Reduce use of filler words (um, uh, like)"
           -> "reduce use of filler words (um, uh, like)"
      [] entry = "Response could be more detailed and comprehensive"
           -> "response could be more detailed and comprehensive"
      [] entry = "Response could be more concise and focused"
           -> "response could be more concise and focused"
      [] entry = "Could demonstrate more confidence in responses"
           -> "could demonstrate more confidence in responses"
      [] entry = "Could adopt a more positive tone"
           -> "could adopt a more positive tone"

_generate_template_feedback(score, strengths, weaknesses) ==
    LET tone == IF score >= 80 THEN "Excellent work!"
                ELSE IF score >= 70 THEN "Good job!"
                ELSE IF score >= 60 THEN "Nice effort!"
                ELSE "Keep practicing!"
    IN  tone \o " "
          \o (IF strengths # <<>>
              THEN "Your response showed " \o Lower(strengths[1]) \o ". "
              ELSE "")
          \o (IF weaknesses # <<>>
              THEN "To improve further, focus on " \o Lower(weaknesses[1]) \o ". "
              ELSE "")
          \o "Keep practicing and you'll continue to improve!"

\* the entries a text can add to the strengths, in the order of the code
TextStrengths ==
    {<<>>, <<"Demonstrated confidence in responses">>,
     <<"Positive and enthusiastic tone">>,
     <<"Demonstrated confidence in responses", "Positive and enthusiastic tone",
       "Rich vocabulary and varied expression">>}

\* the entries a text can add to the weaknesses, in the order of the code
TextWeaknesses ==
    {<<>>, <<"Could demonstrate more confidence in responses">>,
     <<"Could demonstrate more confidence in responses",
       "Could adopt a more positive tone">>}

\* ================================================================== state
VARIABLES
    openai_api_key,       \* settings.openai_api_key is set
    question,             \* the questions row the submissions answer
    interview_responses,  \* table interview_responses, row i has id i
    response_scores,      \* table response_scores, in insertion order
    tasks,                \* background task of response i: locals and position
    reply                 \* status code of the last HTTP reply, None before any

vars == <<openai_api_key, question, interview_responses, response_scores, tasks,
          reply>>

Ids == 1 .. Len(interview_responses)

DbError == "database error"

\* The task added by background_tasks.add_task; it is run once the handler
\* has returned.  usage_read is the usage count that the query of
\* increment_question_usage returned to the handler.
NewTask(kind, text) ==
    [pc |-> "increment_usage", usage_read |-> question.usage_count,
     kind |-> kind, text |-> text,
     question_type |-> question.question_type,
     oracle |-> "none", narrative |-> "none",
     scoring_result |-> _create_empty_score,
     exc |-> None, session_ok |-> TRUE, average_read |-> None,
     outcome |-> "running"]

InitWith(types) ==
    /\ openai_api_key \in BOOLEAN
    /\ question \in [question_type : types, usage_count : {0},
                     average_score : {None}]
    /\ interview_responses = <<>>
    /\ response_scores = <<>>
    /\ tasks = <<>>
    /\ reply = None

\* ------------------------------------------------------------ submissions
\* "if not text or not text.strip()": the text is empty or only whitespace
validate_text_input(text) == ~ text.blank

\* Variant: the usage of the question is counted before the text is validated.
submit_text_response_CountFirst(text, limit) ==
    IF ~ validate_text_input(text)
    THEN /\ reply' = Some(400)
         /\ question' = [question EXCEPT !.usage_count = @ + 1]
         /\ UNCHANGED <<openai_api_key, interview_responses, response_scores, tasks>>
    ELSE /\ Len(interview_responses) < limit
         /\ interview_responses' = Append(interview_responses,
                                          [status |-> "processing", error_message |-> None])
         /\ tasks' = Append(tasks, NewTask("text", text))
         /\ UNCHANGED <<openai_api_key, question, response_scores, reply>>

\* POST /interview/submit-text, up to the query of increment_question_usage:
\* a text that fails validation is answered 400 before anything is read or
\* written; any other text gets a response row and a background task
submit_text_response(text, limit) ==
    IF ~ validate_text_input(text)
    THEN /\ reply' = Some(400)
         /\ UNCHANGED <<openai_api_key, question, interview_responses,
                        response_scores, tasks>>
    ELSE /\ Len(interview_responses) < limit
         /\ interview_responses' = Append(interview_responses,
                                          [status |-> "processing", error_message |-> None])
         /\ tasks' = Append(tasks, NewTask("text", text))
         /\ UNCHANGED <<openai_api_key, question, response_scores, reply>>

\* POST /interview/submit-audio with a file that passes validate_audio_file,
\* up to the query of increment_question_usage
submit_audio_response(limit) ==
    /\ Len(interview_responses) < limit
    /\ interview_responses' = Append(interview_responses,
                                     [status |-> "processing", error_message |-> None])
    /\ tasks' = Append(tasks, NewTask("audio", EmptyText))
    /\ UNCHANGED <<openai_api_key, question, response_scores, reply>>

\* question.usage_count += 1; db.commit() on the row the handler queried, and
\* the handler's return: the background task may start
increment_question_usage(id) ==
    /\ tasks[id].pc = "increment_usage"
    /\ question' = [question EXCEPT !.usage_count = tasks[id].usage_read + 1]
    /\ tasks' = [tasks EXCEPT ![id].pc = "queued", ![id].usage_read = 0]
    /\ reply' = Some(200)
    /\ UNCHANGED <<openai_api_key, interview_responses, response_scores>>

\* -------------------------------------------------------- background task
\* The locals of a task that left its try block or ended are dropped; what
\* the oracle answered and what was raised are kept for the record.
Drop(t) ==
    [t EXCEPT !.text = EmptyText, !.narrative = "none",
              !.scoring_result = _create_empty_score, !.average_read = None]

Raise(id, message, session_ok) ==
    tasks' = [tasks EXCEPT ![id] = [Drop(@) EXCEPT !.pc = "handler",
                                                   !.exc = Some(message),
                                                   !.session_ok = session_ok]]

End(id, outcome) ==
    tasks' = [tasks EXCEPT ![id] = [Drop(@) EXCEPT !.pc = "done",
                                                   !.outcome = outcome]]

\* db.query(InterviewResponse)...first() at the top of the task
TaskBegin(id) ==
    /\ tasks[id].pc = "queued"
    /\ \E db_ok \in BOOLEAN :
          IF db_ok
          THEN tasks' = [tasks EXCEPT ![id].pc =
                            IF tasks[id].kind = "audio" THEN "transcribe" ELSE "score"]
          ELSE Raise(id, DbError, TRUE)
    /\ UNCHANGED <<openai_api_key, question, interview_responses, response_scores, reply>>

TranscriptionError == "Error transcribing audio"

\* Variant: a transcription that raised is noted and the task goes on to
\* score an empty transcript.
Transcribe_GoOn(id, transcript) ==
    /\ tasks[id].pc = "transcribe"
    /\ IF ~ openai_api_key
       THEN Raise(id, "OpenAI API key is required for audio processing", TRUE)
       ELSE IF transcript.kind = "error"
       THEN tasks' = [tasks EXCEPT ![id].pc = "score",
                                   ![id].exc = Some(TranscriptionError)]
       ELSE tasks' = [tasks EXCEPT ![id].pc = "score", ![id].text = transcript.text]
    /\ UNCHANGED <<openai_api_key, question, interview_responses, response_scores, reply>>

\* AudioProcessor() and process_audio_file: transcript is [kind |-> "text"]
\* with the text the transcription service returns, or [kind |-> "error"]
\* when the call raises
Transcribe(id, transcript) ==
    /\ tasks[id].pc = "transcribe"
    /\ IF ~ openai_api_key
       THEN Raise(id, "OpenAI API key is required for audio processing", TRUE)
       ELSE IF transcript.kind = "error"
       THEN Raise(id, TranscriptionError, TRUE)
       ELSE tasks' = [tasks EXCEPT ![id].pc = "score", ![id].text = transcript.text]
    /\ UNCHANGED <<openai_api_key, question, interview_responses, response_scores, reply>>

\* NLPScorer() and score_response
Score(id, oracle, narrative) ==
    /\ tasks[id].pc = "score"
    /\ IF ~ openai_api_key
       THEN Raise(id, "OpenAI API key is required for NLP scoring", TRUE)
       ELSE LET t == tasks[id]
                r == score_response(t.text, t.question_type, oracle, narrative)
                called == ~ t.text.blank
            IN  IF r.exc # None
                THEN tasks' = [tasks EXCEPT ![id] = [Drop(@) EXCEPT !.pc = "handler",
                                                               !.exc = r.exc,
                                                               !.oracle = oracle.kind]]
                ELSE tasks' = [tasks EXCEPT
                                   ![id].pc = "commit",
                                   ![id].scoring_result = r,
                                   ![id].oracle = IF called THEN oracle.kind ELSE "none",
                                   ![id].narrative = IF called THEN narrative ELSE "none"]
    /\ UNCHANGED <<openai_api_key, question, interview_responses, response_scores, reply>>

\* ResponseScore(...) built from scoring_result
ScoreRow(id, scoring_result) ==
    [response_id |-> id,
     overall_score |-> scoring_result.scores.overall_score,
     content_relevance_score |-> scoring_result.scores.content_relevance_score,
     communication_clarity_score |-> scoring_result.scores.communication_clarity_score,
     structure_organization_score |-> scoring_result.scores.structure_organization_score,
     technical_accuracy_score |-> scoring_result.scores.technical_accuracy_score,
     filler_words_count |-> scoring_result.scores.filler_words_count,
     word_count |-> scoring_result.scores.word_count,
     \* scoring_result['feedback'].get('strengths', []): the key is never set
     strengths |-> <<>>,
     weaknesses |-> <<>>,
     suggestions |-> <<>>,
     detailed_feedback |-> scoring_result.feedback.detailed_feedback,
     improvement_tips |-> scoring_result.feedback.improvement_tips]

\* Variant: the status is committed without the score row.
CommitScore_StatusOnly(id) ==
    /\ tasks[id].pc = "commit"
    /\ interview_responses' = [interview_responses EXCEPT ![id].status = "completed"]
    /\ tasks' = [tasks EXCEPT ![id].pc = "read_average"]
    /\ UNCHANGED <<openai_api_key, question, response_scores, reply>>

\* Variant: the average of the question is updated before the commit of the
\* score row, whether or not that commit succeeds.
CommitScore_AverageFirst(id) ==
    /\ tasks[id].pc = "commit"
    /\ question' = [question EXCEPT !.average_score =
           Some(IF question.average_score = None
                THEN tasks[id].scoring_result.scores.overall_score
                ELSE PyInt(question.average_score[1]
                             + tasks[id].scoring_result.scores.overall_score, 2))]
    /\ \E db_ok \in BOOLEAN :
          IF db_ok
          THEN /\ response_scores' = Append(response_scores,
                                            ScoreRow(id, tasks[id].scoring_result))
               /\ interview_responses' =
                      [interview_responses EXCEPT ![id].status = "completed"]
               /\ End(id, "returned")
          ELSE /\ Raise(id, DbError, FALSE)
               /\ UNCHANGED <<interview_responses, response_scores>>
    /\ UNCHANGED <<openai_api_key, reply>>

\* Variant: the score row is added twice before the commit.
CommitScore_TwoRows(id) ==
    /\ tasks[id].pc = "commit"
    /\ \E db_ok \in BOOLEAN :
          IF db_ok
          THEN /\ response_scores' =
                      Append(Append(response_scores,
                                    ScoreRow(id, tasks[id].scoring_result)),
                             ScoreRow(id, tasks[id].scoring_result))
               /\ interview_responses' =
                      [interview_responses EXCEPT ![id].status = "completed"]
               /\ tasks' = [tasks EXCEPT ![id].pc = "read_average"]
          ELSE /\ Raise(id, DbError, FALSE)
               /\ UNCHANGED <<interview_responses, response_scores>>
    /\ UNCHANGED <<openai_api_key, question, reply>>

\* db.add(score); response.status = "completed"; db.commit()
CommitScore(id) ==
    /\ tasks[id].pc = "commit"
    /\ \E db_ok \in BOOLEAN :
          IF db_ok
          THEN /\ response_scores' = Append(response_scores,
                                            ScoreRow(id, tasks[id].scoring_result))
               /\ interview_responses' =
                      [interview_responses EXCEPT ![id].status = "completed"]
               /\ tasks' = [tasks EXCEPT ![id].pc = "read_average"]
          ELSE /\ Raise(id, DbError, FALSE)
               /\ UNCHANGED <<interview_responses, response_scores>>
    /\ UNCHANGED <<openai_api_key, question, reply>>

\* update_question_average_score, the query
ReadAverage(id) ==
    /\ tasks[id].pc = "read_average"
    /\ \E db_ok \in BOOLEAN :
          IF db_ok
          THEN tasks' = [tasks EXCEPT ![id].pc = "write_average",
                                      ![id].average_read = question.average_score]
          ELSE Raise(id, DbError, TRUE)
    /\ UNCHANGED <<openai_api_key, question, interview_responses, response_scores, reply>>

\* Variant: the new score is added to the average without halving the sum.
NewAverage_Sum(average_score, new_score) ==
    IF average_score = None THEN new_score
    ELSE average_score[1] + new_score

\* int((question.average_score + new_score) / 2) on the value read
NewAverage(average_score, new_score) ==
    IF average_score = None THEN new_score
    ELSE PyInt(average_score[1] + new_score, 2)

\* update_question_average_score, the assignment and db.commit()
WriteAverage(id) ==
    /\ tasks[id].pc = "write_average"
    /\ \E db_ok \in BOOLEAN :
          IF db_ok
          THEN /\ question' = [question EXCEPT !.average_score =
                      Some(NewAverage(tasks[id].average_read,
                                      tasks[id].scoring_result.scores.overall_score))]
               /\ End(id, "returned")
          ELSE /\ Raise(id, DbError, FALSE)
               /\ UNCHANGED question
    /\ UNCHANGED <<openai_api_key, interview_responses, response_scores, reply>>

\* Variant: the handler sets the status and leaves error_message alone.
Handler_StatusOnly(id) ==
    /\ tasks[id].pc = "handler"
    /\ \E db_ok \in BOOLEAN :
          IF db_ok /\ tasks[id].session_ok
          THEN /\ interview_responses' =
                      [interview_responses EXCEPT ![id].status = "failed"]
               /\ End(id, "returned")
          ELSE /\ End(id, "raised")
               /\ UNCHANGED interview_responses
    /\ UNCHANGED <<openai_api_key, question, response_scores, reply>>

\* except Exception as e: query the response, set failed, commit.  After a
\* commit that raised, the session refuses further work until rollback(),
\* which the handler never calls: its query raises and the task ends there.
Handler(id) ==
    /\ tasks[id].pc = "handler"
    /\ \E db_ok \in BOOLEAN :
          IF db_ok /\ tasks[id].session_ok
          THEN /\ interview_responses' =
                      [interview_responses EXCEPT
                          ![id].status = "failed",
                          ![id].error_message = tasks[id].exc]
               /\ End(id, "returned")
          ELSE /\ End(id, "raised")
               /\ UNCHANGED interview_responses
    /\ UNCHANGED <<openai_api_key, question, response_scores, reply>>

\* ============================================================ input domains
OracleError == [kind |-> "error", result |-> Judgment(JNull, JNull, JNull, JNull)]

OracleNoJson == [kind |-> "nojson", result |-> Judgment(JNull, JNull, JNull, JNull)]

OracleJson(c, cl, s, t) == [kind |-> "json", result |-> Judgment(c, cl, s, t)]

TranscriptError == [kind |-> "error", text |-> EmptyText]

Transcript(text) == [kind |-> "text", text |-> text]

\* twenty-five words, two of them fillers, three sentences, an introduction cue
ShortText == Text(FALSE, 25, 2, 3, TRUE, FALSE, FALSE)

\* The lifecycle specification: several responses, few inputs.
Texts == {ShortText}

\* a transcription that raises and an empty transcript; transcripts with
\* words are inputs of the scoring and adjustment specifications
Transcripts == {TranscriptError, Transcript(EmptyText)}

Oracles == {OracleError,
            OracleJson(JInt(90), JInt(85), JInt(88), JNull),
            OracleJson(JInt(90), JInt(85), JInt(88), JStr)}

Narratives == {"error"}

\* The scoring specification: one response, many inputs.
\* a text that is not blank has at least one word
WordCounts == {1, 10, 25, 60}

FillerCounts == {0, 1, 7}

CueSets == {<<FALSE, FALSE, FALSE>>, <<FALSE, TRUE, FALSE>>, <<TRUE, TRUE, TRUE>>}

Cues(c) == Cardinality({i \in 1 .. 3 : c[i]})

WideTexts ==
    {Text(FALSE, w, f, n, c[1], c[2], c[3]) :
        <<w, f, n, c>> \in
            {x \in WordCounts \X FillerCounts \X {0, 1, 3} \X CueSets :
                /\ x[2] <= x[1]
                /\ x[3] <= x[1]
                /\ (x[3] = 0) = (x[1] = 0)
                /\ Cues(x[4]) <= x[1]}}

\* an empty text and a text of spaces only
BlankTexts == {EmptyText}

SubmittedTexts == WideTexts \cup BlankTexts

WideTranscripts == {TranscriptError, Transcript(EmptyText)}
                       \cup {Transcript(t) : t \in WideTexts}

WideOracles ==
    {OracleError, OracleNoJson} \cup
    {OracleJson(c, cl, s, t) :
        <<c, cl, s, t>> \in
            {JMissing, JNull, JInt(-5), JInt(150)}
         \X {JStr, JInt(86)}
         \X {JMissing, JInt(88)}
         \X {JMissing, JNull, JStr, JInt(-5), JInt(0), JInt(71), JInt(150)}}

WideNarratives == {"error", "text", "empty", "null"}

\* ========================================================== specifications
Init == InitWith({"behavioral", "technical"})

Next ==
    \/ \E text \in Texts : submit_text_response(text, MaxResponses)
    \/ submit_audio_response(MaxResponses)
    \/ \E id \in Ids : increment_question_usage(id)
    \/ \E id \in Ids : TaskBegin(id)
    \/ \E id \in Ids : \E transcript \in Transcripts : Transcribe(id, transcript)
    \/ \E id \in Ids : \E oracle \in Oracles : \E narrative \in Narratives :
           Score(id, oracle, narrative)
    \/ \E id \in Ids : CommitScore(id)
    \/ \E id \in Ids : ReadAverage(id)
    \/ \E id \in Ids : WriteAverage(id)
    \/ \E id \in Ids : Handler(id)

Spec == Init /\ [][Next]_vars

InitScoring == InitWith(QuestionTypes)

NextScoring ==
    \/ \E text \in SubmittedTexts : submit_text_response(text, 1)
    \/ submit_audio_response(1)
    \/ \E id \in Ids : increment_question_usage(id)
    \/ \E id \in Ids : TaskBegin(id)
    \/ \E id \in Ids : \E transcript \in WideTranscripts : Transcribe(id, transcript)
    \/ \E id \in Ids : \E oracle \in WideOracles : \E narrative \in WideNarratives :
           Score(id, oracle, narrative)
    \/ \E id \in Ids : CommitScore(id)
    \/ \E id \in Ids : ReadAverage(id)
    \/ \E id \in Ids : WriteAverage(id)
    \/ \E id \in Ids : Handler(id)

SpecScoring == InitScoring /\ [][NextScoring]_vars

\* The adjustment specification: one response, oracle clarity and structure
\* values at and near both ends of the scale.
AdjustTexts ==
    {Text(FALSE, w, f, n, c[1], c[2], c[3]) :
        <<w, f, n, c>> \in {10, 60} \X FillerCounts \X {1, 3} \X CueSets}

AdjustTranscripts == {TranscriptError, Transcript(EmptyText), Transcript(ShortText)}

AdjustOracles ==
    {OracleError} \cup
    {OracleJson(JInt(90), cl, s, JNull) :
        <<cl, s>> \in {JInt(5), JInt(85), JInt(100)}
                    \X {JInt(10), JInt(70), JInt(95)}}

NextAdjust ==
    \/ \E text \in AdjustTexts : submit_text_response(text, 1)
    \/ submit_audio_response(1)
    \/ \E id \in Ids : increment_question_usage(id)
    \/ \E id \in Ids : TaskBegin(id)
    \/ \E id \in Ids : \E transcript \in AdjustTranscripts : Transcribe(id, transcript)
    \/ \E id \in Ids : \E oracle \in AdjustOracles : \E narrative \in Narratives :
           Score(id, oracle, narrative)
    \/ \E id \in Ids : CommitScore(id)
    \/ \E id \in Ids : ReadAverage(id)
    \/ \E id \in Ids : WriteAverage(id)
    \/ \E id \in Ids : Handler(id)

SpecAdjust == Init /\ [][NextAdjust]_vars

\* ================================================================== claims
\* the response_scores rows of response id
RowsOf(id) == SelectSeq(response_scores, LAMBDA row : row.response_id = id)

Rows == {response_scores[i] : i \in 1 .. Len(response_scores)}

Terminal == {"completed", "failed"}

\* the exceptions _calculate_final_scores raises on the oracle's content
ScoringErrors ==
    {Some("unsupported operand type(s) for +: 'float' and 'str'"),
     Some("invalid literal for int() with base 10: 'N/A'")}

InRange(n) == 0 <= n /\ n <= 100

\* C1: once the status of a response is completed or failed, no step of any
\* background task changes it again.
C1_TerminalStatusIsFinal ==
    [][\A id \in Ids :
          interview_responses[id].status \in Terminal
              => interview_responses'[id].status = interview_responses[id].status]_vars

\* C2: in every persisted state, a response whose status is completed has a
\* response_scores row carrying its id.
C2_CompletedHasScore ==
    \A id \in Ids :
        interview_responses[id].status = "completed" => Len(RowsOf(id)) >= 1

\* C2 witness: a task has committed, its response is completed and its row is there.
C2_Witness ==
    \E id \in Ids :
        /\ interview_responses[id].status = "completed"
        /\ tasks[id].pc = "read_average"
        /\ Len(RowsOf(id)) = 1

\* C3: in every persisted state, a response whose status is failed has no
\* response_scores row.
C3_FailedHasNoScore ==
    \A id \in Ids :
        interview_responses[id].status = "failed" => Len(RowsOf(id)) = 0

\* C4: every score of every persisted row (overall, content relevance,
\* communication clarity, structure organization, and technical accuracy when
\* it is not null) lies in [0,100].
C4_ScoresInRange ==
    \A row \in Rows :
        /\ InRange(row.overall_score)
        /\ InRange(row.content_relevance_score)
        /\ InRange(row.communication_clarity_score)
        /\ InRange(row.structure_organization_score)
        /\ row.technical_accuracy_score # None
               => InRange(row.technical_accuracy_score[1])

\* C5: the overall score of every persisted row is the floor of the mean of
\* the components stored in the same row: content, clarity, structure, and
\* technical accuracy exactly when the stored value is not null.
C5_OverallIsFloorOfStoredMean ==
    \A row \in Rows :
        LET technical == row.technical_accuracy_score
            sum == row.content_relevance_score + row.communication_clarity_score
                     + row.structure_organization_score
                     + (IF technical # None THEN technical[1] ELSE 0)
            count == IF technical # None THEN 4 ELSE 3
        IN  row.overall_score = sum \div count

\* C6: the stored technical accuracy is non-null exactly when the question
\* type is "technical" and the judgment (oracle or fallback) supplied a
\* technical value, 0 included.  Read while the task that wrote the row
\* still holds the judgment.
C6_TechnicalNullUnlessTechnical ==
    \A id \in Ids :
        tasks[id].pc \in {"read_average", "write_average"} =>
            LET row == RowsOf(id)[1]
                supplied == tasks[id].scoring_result.ai_scores.technical_accuracy.kind = "int"
            IN  (row.technical_accuracy_score # None)
                    <=> (tasks[id].question_type = "technical" /\ supplied)

\* C7: whatever the oracle's message holds, no exception raised on its
\* content leaves score_response: a task whose oracle call returned is never
\* in its exception handler, and never failed, on a scoring error.
C7_OracleContentNeverRaises ==
    \A id \in Ids :
        tasks[id].oracle \in {"json", "nojson"} =>
            /\ tasks[id].exc \notin ScoringErrors
            /\ interview_responses[id].error_message \notin ScoringErrors

\* C8: when the oracle call raised, scoring raises nothing (the only
\* exception the task can meet afterwards is a database error), a task that
\* ran to its end without one leaves the response completed, and the row
\* written holds the fallback judgment for the text's word count.
C8_OracleFailureCompletes ==
    \A id \in Ids :
        tasks[id].oracle = "error" =>
            /\ tasks[id].exc \in {None, Some(DbError)}
            /\ tasks[id].pc = "done" /\ tasks[id].exc = None
                   => interview_responses[id].status = "completed"
            /\ interview_responses[id].status = "completed" =>
                   /\ Len(RowsOf(id)) = 1
                   /\ LET row == RowsOf(id)[1]
                          base == Min(85, Max(40, 2 * row.word_count))
                      IN  /\ row.content_relevance_score = base
                          /\ row.communication_clarity_score <= base - 5
                          /\ row.technical_accuracy_score =
                                 IF tasks[id].question_type = "technical"
                                 THEN Some(base) ELSE None

\* C8 witness: the oracle call raised, the task ran to its end and the
\* response is completed with a fallback row (base 50 for 25 words).
C8_Witness ==
    \E id \in Ids :
        /\ tasks[id].oracle = "error"
        /\ tasks[id].pc = "done"
        /\ interview_responses[id].status = "completed"
        /\ RowsOf(id)[1].content_relevance_score = 50

\* C9: detailed_feedback and improvement_tips of every persisted row are
\* present and not empty.
C9_FeedbackNeverEmpty ==
    \A row \in Rows :
        /\ row.detailed_feedback # None
        /\ row.detailed_feedback[1] # ""
        /\ row.improvement_tips # ""

\* C10: every persisted row carries between 1 and 5 strengths.
C10_OneToFiveStrengths ==
    \A row \in Rows : 1 <= Len(row.strengths) /\ Len(row.strengths) <= 5

\* the tasks that have run update_question_average_score to its end
AverageWriters ==
    {id \in Ids : /\ tasks[id].pc = "done"
                  /\ tasks[id].exc = None
                  /\ Len(RowsOf(id)) = 1}

RECURSIVE SerialAverages(_, _)
\* the averages reachable from average by applying the updates of the
\* responses in ids one after the other, in every order
SerialAverages(ids, average) ==
    IF ids = {} THEN {average}
    ELSE UNION {SerialAverages(ids \ {id},
                               Some(NewAverage(average, RowsOf(id)[1].overall_score))) :
                    id \in ids}

\* C11: the updates of the question's running average are serialized: the
\* stored average is always the result of applying the updates of the
\* evaluations that finished theirs one after the other in some order,
\* starting from no average.
C11_AverageUpdatesSerialized ==
    question.average_score \in SerialAverages(AverageWriters, None)

\* C12: a submission whose text is empty or whitespace is rejected at once:
\* the step that answers 400 creates no response row, schedules no task and
\* leaves the question's usage count (and every other row) as it was.
C12_RejectedSubmissionChangesNothing ==
    [][reply' = Some(400) /\ reply # Some(400)
          => UNCHANGED <<interview_responses, tasks, question, response_scores>>]_vars

\* a blank text was rejected after a response had been accepted and scored
C12_Witness ==
    /\ reply = Some(400)
    /\ Len(interview_responses) = 1
    /\ question.usage_count = 1
    /\ Len(response_scores) = 1

\* C13: a response whose transcription call raised never has the scoring
\* oracle called and never gets a score row or the status completed, and
\* when its task has recorded the failure the response is failed with the
\* message of the transcription failure.
C13_TranscriptionFailureFails ==
    \A id \in Ids :
        tasks[id].exc = Some(TranscriptionError) =>
            /\ tasks[id].oracle = "none"
            /\ RowsOf(id) = <<>>
            /\ interview_responses[id].status # "completed"
            /\ (tasks[id].pc = "done" /\ tasks[id].outcome = "returned") =>
                   /\ interview_responses[id].status = "failed"
                   /\ interview_responses[id].error_message = Some(TranscriptionError)

\* an audio response failed by its transcription
C13_Witness ==
    \E id \in Ids :
        /\ tasks[id].kind = "audio"
        /\ tasks[id].exc = Some(TranscriptionError)
        /\ tasks[id].pc = "done"
        /\ interview_responses[id].status = "failed"
        /\ interview_responses[id].error_message = Some(TranscriptionError)

\* C14: every response whose status is failed has an error message.
C14_FailedHasMessage ==
    \A id \in Ids :
        interview_responses[id].status = "failed" =>
            interview_responses[id].error_message # None

\* a response failed by a database error of its task
C14_Witness ==
    \E id \in Ids :
        /\ interview_responses[id].status = "failed"
        /\ interview_responses[id].error_message = Some(DbError)

\* C15: every response has exactly one background task, which is started at
\* most once (it never returns to the queue), and at most one score row; a
\* score row, once written, is never changed or removed.
C15_OneRunOneRow ==
    /\ [](Len(tasks) = Len(interview_responses))
    /\ [](\A id \in Ids : Len(RowsOf(id)) <= 1)
    /\ [][/\ \A id \in Ids :
               tasks[id].pc \notin {"increment_usage", "queued"}
                   => tasks'[id].pc \notin {"increment_usage", "queued"}
          /\ Len(response_scores') >= Len(response_scores)
          /\ \A i \in 1 .. Len(response_scores) :
               response_scores'[i] = response_scores[i]]_vars

\* two responses were evaluated to the end, each with its own score row
C15_Witness ==
    /\ Len(interview_responses) = 2
    /\ \A id \in Ids : tasks[id].pc = "done" /\ Len(RowsOf(id)) = 1

\* C16: the evaluation task of every accepted submission ends with the
\* response in a terminal status: a task that has ended has not left its
\* response in processing.
C16_EndedTaskLeavesTerminalStatus ==
    \A id \in Ids :
        tasks[id].pc = "done" => interview_responses[id].status \in Terminal

\* the tasks that hold the result of score_response and the text it scored
Judged ==
    {id \in Ids : tasks[id].pc \in {"commit", "read_average", "write_average"}}

\* C18: when the message of the oracle holds no JSON object that can be
\* parsed, the judgment is the one a raising oracle call gives for the same
\* text and question type.
C18_ParseFailureIsServiceErrorFallback ==
    \A id \in Judged :
        tasks[id].oracle = "nojson" =>
            tasks[id].scoring_result.ai_scores =
                _get_ai_scores(tasks[id].text, tasks[id].question_type, OracleError)

\* C19: when the oracle call raises, the judgment for a text of w words has
\* content = clamp(40, 2w, 85), clarity = content - 5, structure =
\* content - 10, and technical = content on a technical question and none
\* on any other.
C19_ServiceErrorFallbackScores ==
    \A id \in Judged :
        tasks[id].oracle = "error" =>
            LET j == tasks[id].scoring_result.ai_scores
                w == tasks[id].text.words
                content == IF 2 * w < 40 THEN 40 ELSE IF 2 * w > 85 THEN 85 ELSE 2 * w
            IN  /\ j.content_relevance = JInt(content)
                /\ j.communication_clarity = JInt(content - 5)
                /\ j.structure_organization = JInt(content - 10)
                /\ j.technical_accuracy =
                       IF tasks[id].question_type = "technical"
                       THEN JInt(content) ELSE JNull

\* the oracle call raised on a ten-word answer to a technical question:
\* 40, 35, 30 and 40
C19_Witness ==
    \E id \in Judged :
        /\ tasks[id].oracle = "error"
        /\ tasks[id].text.words = 10
        /\ tasks[id].question_type = "technical"
        /\ tasks[id].scoring_result.ai_scores =
               Judgment(JInt(40), JInt(35), JInt(30), JInt(40))

\* the sum of the score components of a scoring result, clarity taken at its
\* stored integer part, with the technical value of the judgment when counted
ComponentSum(r, counted) ==
    r.scores.content_relevance_score + r.scores.communication_clarity_score
        + r.scores.structure_organization_score
        + (IF counted THEN r.ai_scores.technical_accuracy.v ELSE 0)

\* C20: the overall score is the integer part of the mean of content, clarity
\* and structure, with the technical value as a fourth component exactly when
\* the question is technical and the judgment has a technical value; on any
\* other question the technical value of the judgment is ignored.
C20_OverallIsMeanOfCountedComponents ==
    \A id \in Judged :
        tasks[id].oracle # "none" =>
            LET r == tasks[id].scoring_result
                counted == /\ tasks[id].question_type = "technical"
                           /\ r.ai_scores.technical_accuracy.kind = "int"
                count == IF counted THEN 4 ELSE 3
                sum == ComponentSum(r, counted)
            IN  /\ r.scores.overall_score * count <= sum
                /\ sum < (r.scores.overall_score + 1) * count

\* a technical question whose judgment has a technical value that moves the
\* overall score away from the mean of the other three
C20_Witness ==
    \E id \in Judged :
        LET r == tasks[id].scoring_result
        IN  /\ tasks[id].question_type = "technical"
            /\ r.ai_scores.technical_accuracy = JInt(71)
            /\ r.scores.overall_score * 4 <= ComponentSum(r, TRUE)
            /\ r.scores.overall_score # PyInt(ComponentSum(r, FALSE), 3)

\* C21: the stored clarity is the integer part of
\* clamp(0, clarity - min(20, filler_ratio * 100), 100), where clarity is the
\* judgment's clarity: the penalty is at most 20 points and the result is
\* never below 0.
C21_ClarityPenaltyCapped ==
    \A id \in Judged :
        tasks[id].oracle # "none" =>
            LET r == tasks[id].scoring_result
                clarity == GetScore(r.ai_scores.communication_clarity, 70)
                den == IF tasks[id].text.words > 1 THEN tasks[id].text.words ELSE 1
                ratio100 == 100 * tasks[id].text.fillers
                penalty == IF ratio100 > 20 * den THEN 20 * den ELSE ratio100
                final == IF clarity * den - penalty < 0 THEN 0
                         ELSE IF clarity * den - penalty > 100 * den THEN 100 * den
                         ELSE clarity * den - penalty
                stored == r.scores.communication_clarity_score
            IN  /\ stored * den <= final
                /\ final < (stored + 1) * den
                /\ stored >= clarity - 20
                /\ stored >= 0

\* clarity 85 with one filler in ten words is stored as 75, and clarity 5
\* with seven fillers in ten words is stored as 0
C21_Witness ==
    \E id \in Judged :
        LET r == tasks[id].scoring_result
        IN  /\ tasks[id].text.words = 10
            /\ \/ /\ tasks[id].text.fillers = 1
                  /\ r.ai_scores.communication_clarity = JInt(85)
                  /\ r.scores.communication_clarity_score = 75
               \/ /\ tasks[id].text.fillers = 7
                  /\ r.ai_scores.communication_clarity = JInt(5)
                  /\ r.scores.communication_clarity_score = 0

\* C22: the stored structure score is
\* clamp(0, structure + (heuristic - 70) * 0.3, 100), where structure is the
\* judgment's structure score and heuristic, the score of _analyze_structure,
\* is within [0,100]: the heuristic moves the score by at most 21 points
\* down and 9 points up, and the result stays within [0,100].
C22_StructureNudgeBounded ==
    \A id \in Judged :
        tasks[id].oracle # "none" =>
            LET r == tasks[id].scoring_result
                structure == GetScore(r.ai_scores.structure_organization, 70)
                heuristic == _analyze_structure(tasks[id].text).structure_score
                \* in tenths of a point
                moved == 10 * structure + 3 * (heuristic - 70)
                final == IF moved < 0 THEN 0 ELSE IF moved > 1000 THEN 1000 ELSE moved
                stored == r.scores.structure_organization_score
            IN  /\ 0 <= heuristic /\ heuristic <= 100
                /\ 10 * stored <= final
                /\ final < 10 * (stored + 1)
                /\ structure - 21 <= stored /\ stored <= structure + 9
                /\ 0 <= stored /\ stored <= 100

\* a structure score of 95 raised to the ceiling of 100 by a text with all
\* three cues
C22_Witness ==
    \E id \in Judged :
        LET r == tasks[id].scoring_result
        IN  /\ r.ai_scores.structure_organization = JInt(95)
            /\ _analyze_structure(tasks[id].text).structure_score = 100
            /\ r.scores.structure_organization_score = 100

\* round(n / 2) for n >= 0, a half going to the even neighbour as Python's
\* round does; rounding a half up gives the same value whenever n \div 2 is odd
RoundHalf(n) ==
    IF n % 2 = 0 THEN n \div 2
    ELSE IF (n \div 2) % 2 = 0 THEN n \div 2 ELSE n \div 2 + 1

\* C23: when the question has an average score, the update of a completed
\* evaluation with overall score s stores round((old_avg + s) / 2).
C23_AverageIsRounded ==
    [][\A id \in Ids :
          (/\ tasks[id].pc = "write_average"
           /\ tasks'[id].pc = "done"
           /\ tasks[id].average_read # None)
              => question'.average_score =
                     Some(RoundHalf(tasks[id].average_read[1]
                                      + tasks[id].scoring_result.scores.overall_score))]_vars

\* C24: when the narrative call raised, the detailed feedback of the result
\* is the template of the four score bands (>= 80, >= 70, >= 60, below) that
\* names the first strength and the first weakness found for the scores.
C24_FallbackFeedbackIsBandTemplate ==
    \A id \in Judged :
        tasks[id].narrative = "error" =>
            LET r == tasks[id].scoring_result
            IN  \E text_strengths \in TextStrengths :
                \E text_weaknesses \in TextWeaknesses :
                    r.feedback.detailed_feedback =
                        Some(_generate_template_feedback(
                                 r.scores.overall_score,
                                 _identify_strengths(r.scores, text_strengths,
                                                     tasks[id].question_type),
                                 _identify_weaknesses(r.scores, text_weaknesses,
                                                      tasks[id].question_type)))

\* C25: a response whose background task has not begun has the status
\* pending; processing is set only when the evaluation run starts.
C25_PendingUntilTaskBegins ==
    \A id \in Ids :
        tasks[id].pc = "queued" => interview_responses[id].status = "pending"

\* C26: when the text that reaches score_response is empty or whitespace,
\* neither the oracle nor the narrative generator is called and every score
\* and count of the result is 0 with no technical accuracy; once the task
\* has committed, the response is completed and holds that all-zero row.
C26_EmptyTextCompletesWithZeros ==
    \A id \in Judged :
        tasks[id].text.blank =>
            /\ tasks[id].oracle = "none"
            /\ tasks[id].narrative = "none"
            /\ tasks[id].scoring_result.scores = ZeroScores
            /\ tasks[id].pc \in {"read_average", "write_average"} =>
                   /\ interview_responses[id].status = "completed"
                   /\ Len(RowsOf(id)) = 1
                   /\ RowsOf(id)[1].overall_score = 0
                   /\ RowsOf(id)[1].content_relevance_score = 0
                   /\ RowsOf(id)[1].communication_clarity_score = 0
                   /\ RowsOf(id)[1].structure_organization_score = 0
                   /\ RowsOf(id)[1].technical_accuracy_score = None
                   /\ RowsOf(id)[1].word_count = 0
                   /\ RowsOf(id)[1].filler_words_count = 0

\* an audio response with an empty transcript, completed with its zero row
C26_Witness ==
    \E id \in Judged :
        /\ tasks[id].kind = "audio"
        /\ tasks[id].text.blank
        /\ tasks[id].pc = "write_average"
        /\ interview_responses[id].status = "completed"
        /\ RowsOf(id)[1].overall_score = 0

\* C27: the usage count of the question is the number of accepted
\* submissions whose handler has counted them, whatever became of their
\* evaluation: every accepted submission adds exactly 1, in every
\* interleaving of the handlers.
C27_UsageCountsAcceptedSubmissions ==
    question.usage_count =
        Cardinality({id \in Ids : tasks[id].pc # "increment_usage"})

\* C28: the average score of the question changes only in the step in which
\* a task whose response is already committed as completed, with its score
\* row, finishes update_question_average_score; that task is then done for
\* good, so it changes the average at most once, and a task that fails
\* before its commit never changes it.
C28_AverageChangesOnlyAfterCommit ==
    [][/\ question'.average_score # question.average_score =>
             \E id \in Ids :
                 /\ tasks[id].pc = "write_average"
                 /\ tasks'[id].pc = "done"
                 /\ interview_responses[id].status = "completed"
                 /\ Len(RowsOf(id)) = 1
       /\ \A id \in Ids : tasks[id].pc = "done" => tasks'[id].pc = "done"]_vars

\* the average holds the overall score of a completed response whose task
\* is done, while another task failed before its commit
C28_Witness ==
    \E id, other \in Ids :
        /\ tasks[id].pc = "done"
        /\ interview_responses[id].status = "completed"
        /\ question.average_score = Some(RowsOf(id)[1].overall_score)
        /\ interview_responses[other].status = "failed"
        /\ RowsOf(other) = <<>>

\* C29: with every overall score within [0,100], the average score of the
\* question is null or an integer within [0,100]; an update that read no
\* average stores the new score, and an update that read an average stores a
\* value between the smaller and the larger of that average and the new
\* score.
C29_AverageStaysInRange ==
    /\ []((\A row \in Rows : InRange(row.overall_score))
             => (question.average_score # None
                    => InRange(question.average_score[1])))
    /\ [][\A id \in Ids :
             (/\ tasks[id].pc = "write_average"
              /\ tasks'[id].pc = "done"
              /\ InRange(tasks[id].scoring_result.scores.overall_score))
                 => LET old == tasks[id].average_read
                        new == tasks[id].scoring_result.scores.overall_score
                        stored == question'.average_score
                    IN  /\ stored # None
                        /\ old = None => stored[1] = new
                        /\ old # None =>
                              /\ stored[1] >= (IF old[1] < new THEN old[1] ELSE new)
                              /\ stored[1] <= (IF old[1] < new THEN new ELSE old[1])]_vars

\* an average of 82 was read and the update with the new score 42 stored 62
C29_Witness ==
    /\ question.average_score = Some(62)
    /\ \E id \in Ids :
          /\ tasks[id].pc = "done"
          /\ tasks[id].exc = None
          /\ RowsOf(id)[1].overall_score = 42

\* the entries of a sequence
Entries(seq) == {seq[i] : i \in 1 .. Len(seq)}

\* C30: for every score row, the strengths and weaknesses FeedbackGenerator
\* finds never name the same dimension twice: content relevance,
\* communication clarity and structure give a strength exactly from 70 up and
\* a weakness exactly below 60; technical accuracy gives a strength only from
\* 70 up and a weakness only below 60; a score from 60 to 69 gives neither.
C30_StrengthsAndWeaknessesDisjoint ==
    \A row \in Rows :
    \A text_strengths \in TextStrengths :
    \A text_weaknesses \in TextWeaknesses :
        LET strengths == Entries(_identify_strengths(row, text_strengths,
                                                     question.question_type))
            weaknesses == Entries(_identify_weaknesses(row, text_weaknesses,
                                                       question.question_type))
            content_s == strengths \cap
                {"Excellent content relevance - directly addressed the question",
                 "Good content relevance - mostly addressed the question"} # {}
            content_w == "Response could be more directly relevant to the question"
                             \in weaknesses
            clarity_s == strengths \cap
                {"Clear and articulate communication",
                 "Generally clear communication"} # {}
            clarity_w == "Communication could be clearer and more articulate"
                             \in weaknesses
            structure_s == strengths \cap
                {"Well-organized and structured response",
                 "Good response structure"} # {}
            structure_w == "Response structure and organization needs improvement"
                               \in weaknesses
            technical_s == strengths \cap
                {"Strong technical accuracy and knowledge",
                 "Good technical understanding"} # {}
            technical_w == "Technical accuracy and knowledge could be strengthened"
                               \in weaknesses
        IN  /\ content_s = (row.content_relevance_score >= 70)
            /\ content_w = (row.content_relevance_score < 60)
            /\ clarity_s = (row.communication_clarity_score >= 70)
            /\ clarity_w = (row.communication_clarity_score < 60)
            /\ structure_s = (row.structure_organization_score >= 70)
            /\ structure_w = (row.structure_organization_score < 60)
            /\ technical_s => /\ row.technical_accuracy_score # None
                              /\ row.technical_accuracy_score[1] >= 70
            /\ technical_w => /\ row.technical_accuracy_score # None
                              /\ row.technical_accuracy_score[1] < 60
            /\ ~ (content_s /\ content_w)
            /\ ~ (clarity_s /\ clarity_w)
            /\ ~ (structure_s /\ structure_w)
            /\ ~ (technical_s /\ technical_w)

\* a row with content relevance 100 (a strength), structure 49 (a weakness)
\* and clarity 66 (neither)
C30_Witness ==
    \E row \in Rows :
        /\ row.content_relevance_score = 100
        /\ row.communication_clarity_score = 66
        /\ row.structure_organization_score = 49
        /\ Len(_identify_strengths(row, <<>>, question.question_type)) >= 1
        /\ Len(_identify_weaknesses(row, <<>>, question.question_type)) >= 1

====
